---- MODULE Spec2Model ----
(***************************************************************************)
(* pyartifactory: the resource clients of objects.py (users, groups,       *)
(* repositories, permissions), the security client's token revocation and  *)
(* the AQL query compiler, as state machines over one remote store.        *)
(*                                                                         *)
(* Text is modelled as a sequence of tokens (a token is an atomic piece of *)
(* text); numbers are formatted digit by digit.                            *)
(***************************************************************************)
EXTENDS Integers, Sequences, FiniteSets, TLC

VARIABLES
    client,   \* the _uri of the resource client under study
    remote,   \* the remote store of that resource kind: name -> JSON or Absent
    call,     \* per caller: the call in progress on the client
    sec,      \* the security client's revoke_access_token call
    aql,      \* the Aql object handed to create_aql_query
    query,    \* the text create_aql_query returned, or None
    artifacts, \* the remote store of artifacts: path -> held or not
    acall     \* the call in progress on the artifact client

vars == <<client, remote, call, sec, aql, query, artifacts, acall>>

\* Python's None: where a string is expected, and where an object is
None == "None"
Nil == [nil |-> TRUE]
\* no resource of that name in the remote store; a response without a body
Absent == [absent |-> TRUE]
NoBody == [nobody |-> TRUE]

\* ---------------------------------------------------------------- bounds
MaxName == 1

Names == 1..MaxName
\* the contents a record can have besides its name
Vals == {"a", "b"}
Callers == {"c1", "c2"}

\* ------------------------------------------------------- resource clients
Users == "security/users"
Groups == "security/groups"
Repositories == "repositories"
Permissions == "security/permissions"

Kinds == {Users, Groups, Repositories, Permissions}

NotFoundException(k) ==
    CASE k = Users -> "UserNotFoundException"
      [] k = Groups -> "GroupNotFoundException"
      [] k = Repositories -> "RepositoryNotFoundException"
      [] k = Permissions -> "PermissionNotFoundException"

AlreadyExistsException(k) ==
    CASE k = Users -> "UserAlreadyExistsException"
      [] k = Groups -> "GroupAlreadyExistsException"
      [] k = Repositories -> "RepositoryAlreadyExistsException"
      [] k = Permissions -> "PermissionAlreadyExistsException"

\* f"api/{self._uri}/{name}"
Route(k, name) == <<"api", k, name>>

\* record.dict(): the JSON body of a write request
Dict(rec) == [name |-> rec.name, val |-> rec.val]

\* UserResponse(**response.json()), Group(**...), parse_obj_as(...): a new
\* object built from the response body
Model(json) == [name |-> json.name, val |-> json.val, origin |-> "response"]

\* response.raise_for_status(): an HTTPError for the 4xx and 5xx statuses
raise_for_status(status) == status >= 400 /\ status < 600

\* response.ok
ok(status) == ~raise_for_status(status)

\* _generic_http_method_request: TRUE when the request ends in an HTTPError
\* (_get, _post, _put and _delete leave raise_for_status at its default, True)
generic_http_method_request(status, raise_flag) ==
    raise_flag /\ raise_for_status(status)

Outcome(o, r, e) == [out |-> o, ret |-> r, cause |-> e]

\* get that takes only 404 for an absent name
get_only404(k, resp) ==
    IF generic_http_method_request(resp.status, TRUE)
    THEN IF resp.status = 404
         THEN Outcome(NotFoundException(k), Nil, None)
         ELSE Outcome("ArtifactoryException", Nil, "HTTPError")
    ELSE IF resp.body = NoBody
         THEN Outcome("JSONDecodeError", Nil, None)
         ELSE Outcome("ok", Model(resp.body), None)

\* get / get_repo, from the response of its one GET
get(k, resp) ==
    IF generic_http_method_request(resp.status, TRUE)
    THEN IF resp.status = 404 \/ resp.status = 400
         THEN Outcome(NotFoundException(k), Nil, None)
         ELSE Outcome("ArtifactoryException", Nil, "HTTPError")
    ELSE IF resp.body = NoBody
         THEN Outcome("JSONDecodeError", Nil, None)
         ELSE Outcome("ok", Model(resp.body), None)

\* a call that ends: by a return (o = "ok") or by an exception
Finish(c, o) ==
    [c EXCEPT !.pc = "done", !.out = o.out, !.ret = o.ret, !.cause = o.cause]

Goto(c, pc) == [c EXCEPT !.pc = pc]

\* a write request (_put, _post, _delete) raises the HTTPError as it is
Written(c, resp, pc) ==
    IF generic_http_method_request(resp.status, TRUE)
    THEN Finish(c, Outcome("HTTPError", Nil, None))
    ELSE Goto(c, pc)

\* create that writes whether or not the name exists
create_upsert(k, c, resp) ==
    CASE c.pc = "check" ->
            LET g == get(k, resp) IN
            IF g.out = "ok" \/ g.out = NotFoundException(k)
            THEN Goto([c EXCEPT !.chk = g.out], "write")
            ELSE Finish([c EXCEPT !.chk = g.out], g)
      [] c.pc = "write" -> Written(c, resp, "refetch")
      [] c.pc = "refetch" -> Finish(c, get(k, resp))

\* create that returns the caller's object after the re-fetch
create_local(k, c, resp) ==
    CASE c.pc = "check" ->
            LET g == get(k, resp) IN
            IF g.out = "ok"
            THEN Finish([c EXCEPT !.chk = g.out],
                        Outcome(AlreadyExistsException(k), Nil, None))
            ELSE IF g.out = NotFoundException(k)
            THEN Goto([c EXCEPT !.chk = g.out], "write")
            ELSE Finish([c EXCEPT !.chk = g.out], g)
      [] c.pc = "write" -> Written(c, resp, "refetch")
      [] c.pc = "refetch" ->
            LET g == get(k, resp) IN
            IF g.out = "ok" THEN Finish(c, Outcome("ok", c.rec, None))
            ELSE Finish(c, g)

\* create that takes a PUT answered 200 (replaced) for a duplicate
create_detect(k, c, resp) ==
    CASE c.pc = "check" ->
            LET g == get(k, resp) IN
            IF g.out = "ok"
            THEN Finish([c EXCEPT !.chk = g.out],
                        Outcome(AlreadyExistsException(k), Nil, None))
            ELSE IF g.out = NotFoundException(k)
            THEN Goto([c EXCEPT !.chk = g.out], "write")
            ELSE Finish([c EXCEPT !.chk = g.out], g)
      [] c.pc = "write" ->
            IF resp.status = 200
            THEN Finish(c, Outcome(AlreadyExistsException(k), Nil, None))
            ELSE Written(c, resp, "refetch")
      [] c.pc = "refetch" -> Finish(c, get(k, resp))

\* create / create_repo, resumed with the response of its pending request
create(k, c, resp) ==
    CASE c.pc = "check" ->
            LET g == get(k, resp) IN
            IF g.out = "ok"
            THEN Finish([c EXCEPT !.chk = g.out],
                        Outcome(AlreadyExistsException(k), Nil, None))
            ELSE IF g.out = NotFoundException(k)
            THEN Goto([c EXCEPT !.chk = g.out], "write")
            ELSE Finish([c EXCEPT !.chk = g.out], g)
      [] c.pc = "write" -> Written(c, resp, "refetch")
      [] c.pc = "refetch" -> Finish(c, get(k, resp))

\* update / update_repo: ArtifactoryUser.update posts twice, and
\* ArtifactoryPermission.update starts at its write
update(k, c, resp) ==
    CASE c.pc = "check" ->
            LET g == get(k, resp) IN
            IF g.out = "ok"
            THEN Goto([c EXCEPT !.chk = g.out], "write")
            ELSE Finish([c EXCEPT !.chk = g.out], g)
      [] c.pc = "write" ->
            Written(c, resp, IF k = Users THEN "write2" ELSE "refetch")
      [] c.pc = "write2" -> Written(c, resp, "refetch")
      [] c.pc = "refetch" -> Finish(c, get(k, resp))

\* delete that returns normally when the name is absent
delete_silent(k, c, resp) ==
    CASE c.pc = "check" ->
            LET g == get(k, resp) IN
            IF g.out = "ok"
            THEN Goto([c EXCEPT !.chk = g.out], "write")
            ELSE IF g.out = NotFoundException(k)
            THEN Finish([c EXCEPT !.chk = g.out], Outcome("ok", Nil, None))
            ELSE Finish([c EXCEPT !.chk = g.out], g)
      [] c.pc = "write" ->
            IF generic_http_method_request(resp.status, TRUE)
            THEN Finish(c, Outcome("HTTPError", Nil, None))
            ELSE Finish(c, Outcome("ok", Nil, None))

\* delete of users, groups and permissions
delete(k, c, resp) ==
    CASE c.pc = "check" ->
            LET g == get(k, resp) IN
            IF g.out = "ok"
            THEN Goto([c EXCEPT !.chk = g.out], "write")
            ELSE Finish([c EXCEPT !.chk = g.out], g)
      [] c.pc = "write" ->
            IF generic_http_method_request(resp.status, TRUE)
            THEN Finish(c, Outcome("HTTPError", Nil, None))
            ELSE Finish(c, Outcome("ok", Nil, None))

\* the first request of an operation
StartPc(k, op) ==
    IF op = "get" THEN "read"
    ELSE IF op = "update" /\ k = Permissions THEN "write"
    ELSE "check"

\* the request a call issues where it stands
Request(k, c) ==
    LET route == Route(k, c.rec.name) IN
    CASE c.pc \in {"read", "check", "refetch"} ->
            [m |-> "GET", route |-> route, json |-> Nil]
      [] c.pc = "write" /\ c.op = "create" ->
            [m |-> "PUT", route |-> route, json |-> Dict(c.rec)]
      [] c.pc = "write" /\ c.op = "update" /\ k = Permissions ->
            [m |-> "PUT", route |-> route, json |-> Dict(c.rec)]
      [] c.pc \in {"write", "write2"} /\ c.op = "update" /\ k # Permissions ->
            [m |-> "POST", route |-> route, json |-> Dict(c.rec)]
      [] c.pc = "write" /\ c.op = "delete" ->
            [m |-> "DELETE", route |-> route, json |-> Nil]

\* ----------------------------------------------------- the remote system
\* statuses a response can carry besides the store's own answer: a read may be
\* answered without a body, unmodified, as a bad request or by an error of
\* the server; a write is served or refused by an error of the server
FaultStatuses(req) == IF req.m = "GET" THEN {204, 304, 400, 500} ELSE {500}

Response(s, b) == [status |-> s, body |-> b]

\* the store's own answer to a request, and the store after it
Served(req, store) ==
    LET n == req.route[3] IN
    CASE req.m = "GET" ->
            IF store[n] = Absent
            THEN [resp |-> Response(404, NoBody), store |-> store]
            ELSE [resp |-> Response(200, store[n]), store |-> store]
      [] req.m = "PUT" ->
            [resp |-> Response(IF store[n] = Absent THEN 201 ELSE 200, NoBody),
             store |-> [store EXCEPT ![n] = req.json]]
      [] req.m = "POST" ->
            IF store[n] = Absent
            THEN [resp |-> Response(404, NoBody), store |-> store]
            ELSE [resp |-> Response(200, NoBody),
                  store |-> [store EXCEPT ![n] = req.json]]
      [] req.m = "DELETE" ->
            IF store[n] = Absent
            THEN [resp |-> Response(404, NoBody), store |-> store]
            ELSE [resp |-> Response(204, NoBody),
                  store |-> [store EXCEPT ![n] = Absent]]

\* every exchange the transport can complete for a request
Exchanges(req, store) ==
    {[resp |-> Served(req, store).resp, store |-> Served(req, store).store,
      fault |-> FALSE]}
    \cup {[resp |-> Response(s, NoBody), store |-> store, fault |-> TRUE] :
            s \in FaultStatuses(req)}

IsWrite(req) == req.m \in {"PUT", "POST", "DELETE"}

\* ------------------------------------------------------------- the calls
IdleCall ==
    [op |-> None, rec |-> Nil, pc |-> "idle", log |-> <<>>, chk |-> None,
     out |-> None, ret |-> Nil, cause |-> None, resp |-> Nil, clean |-> TRUE,
     alone |-> TRUE]

Active(c) == c.pc # "idle"

\* the caller's own call after an exchange: the request is logged, a get call
\* keeps the response it read, and the call is clean while the store itself
\* answered each of its requests
Logged(c, req, x) ==
    [c EXCEPT !.log = Append(@, req),
              !.resp = IF c.op = "get" THEN x.resp ELSE @,
              !.clean = @ /\ ~x.fault]

\* another caller's call: it is alone with its name until a request writes it
Disturbed(c, req) ==
    IF Active(c) /\ IsWrite(req) /\ req.route[3] = c.rec.name
    THEN [c EXCEPT !.alone = FALSE]
    ELSE c

\* the caller's code from the response of its pending request to its next
\* request, or to its end
Resume(k, c, resp) ==
    CASE c.op = "get" -> Finish(c, get(k, resp))
      [] c.op = "create" -> create(k, c, resp)
      [] c.op = "update" -> update(k, c, resp)
      [] c.op = "delete" -> delete(k, c, resp)

\* one request of caller p: the exchange with the remote system, and the
\* caller's code that follows it
Step(p) ==
    LET req == Request(client, call[p]) IN
    \E x \in Exchanges(req, remote) :
        /\ remote' = x.store
        /\ call' = [q \in Callers |->
                      IF q = p
                      THEN Logged(Resume(client, call[p], x.resp), req, x)
                      ELSE Disturbed(call[q], req)]
        /\ UNCHANGED <<client, sec, aql, query, artifacts, acall>>

Running(p, op) == call[p].op = op /\ call[p].pc \notin {"idle", "done"}

Ops(k) == IF k = Repositories THEN {"get", "create", "update"}
          ELSE {"get", "create", "update", "delete"}

Invoke(p) ==
    /\ call[p].pc = "idle"
    /\ \E op \in Ops(client), n \in Names, v \in Vals :
        /\ op \in {"get", "delete"} => v = "a"
        /\ call' = [call EXCEPT ![p] =
                      [IdleCall EXCEPT !.op = op,
                          !.rec = [name |-> n, val |-> v, origin |-> "caller"],
                          !.pc = StartPc(client, op)]]
    /\ UNCHANGED <<client, remote, sec, aql, query, artifacts, acall>>

Get(p) == Running(p, "get") /\ Step(p)

Create(p) == Running(p, "create") /\ Step(p)

Update(p) == Running(p, "update") /\ Step(p)

Delete(p) == Running(p, "delete") /\ Step(p)

Return(p) ==
    /\ call[p].pc = "done"
    /\ call' = [call EXCEPT ![p] = IdleCall]
    /\ UNCHANGED <<client, remote, sec, aql, query, artifacts, acall>>

\* ---------------------------------------------------- security client
\* what Python takes for true of an Optional[str]
Truthy(x) == x # None /\ x # ""

Tokens == {None, "", "tok"}
TokenIds == {None, "", "id"}

\* the statuses a response can carry
StatusCodes == 100..599

SecCall(token, token_id) ==
    [token |-> token, token_id |-> token_id, pc |-> "start", log |-> <<>>,
     status |-> 0, out |-> None, ret |-> FALSE]

\* revoke_access_token that validates after its POST
revoke_posts_first(s, status) ==
    LET payload == IF Truthy(s.token) THEN [token |-> s.token]
                   ELSE [token_id |-> s.token_id]
        req == [m |-> "POST", route |-> <<"api", "security", "token/revoke">>,
                data |-> payload]
    IN  IF ~(Truthy(s.token) \/ Truthy(s.token_id))
        THEN [s EXCEPT !.pc = "done", !.log = <<req>>, !.status = status,
                       !.out = "InvalidTokenDataException"]
        ELSE [s EXCEPT !.pc = "done", !.log = <<req>>, !.status = status,
                       !.out = "ok", !.ret = ok(status)]

\* revoke_access_token that leaves raise_for_status at its default
revoke_raises(s, status) ==
    IF ~(Truthy(s.token) \/ Truthy(s.token_id))
    THEN [s EXCEPT !.pc = "done", !.out = "InvalidTokenDataException"]
    ELSE LET payload == IF Truthy(s.token) THEN [token |-> s.token]
                        ELSE [token_id |-> s.token_id]
             req == [m |-> "POST",
                     route |-> <<"api", "security", "token/revoke">>,
                     data |-> payload]
         IN  IF generic_http_method_request(status, TRUE)
             THEN [s EXCEPT !.pc = "done", !.log = <<req>>,
                            !.status = status, !.out = "HTTPError"]
             ELSE [s EXCEPT !.pc = "done", !.log = <<req>>,
                            !.status = status, !.out = "ok", !.ret = TRUE]

\* revoke_access_token, its POST answered with the given status
revoke_access_token(s, status) ==
    IF ~(Truthy(s.token) \/ Truthy(s.token_id))
    THEN [s EXCEPT !.pc = "done", !.out = "InvalidTokenDataException"]
    ELSE LET payload == IF Truthy(s.token) THEN [token |-> s.token]
                        ELSE [token_id |-> s.token_id]
             req == [m |-> "POST",
                     route |-> <<"api", "security", "token/revoke">>,
                     data |-> payload]
         IN  IF generic_http_method_request(status, FALSE)
             THEN [s EXCEPT !.pc = "done", !.log = <<req>>,
                            !.status = status, !.out = "HTTPError"]
             ELSE [s EXCEPT !.pc = "done", !.log = <<req>>,
                            !.status = status, !.out = "ok",
                            !.ret = ok(status)]

RevokeAccessToken ==
    /\ sec.pc = "start"
    /\ \E status \in StatusCodes : sec' = revoke_access_token(sec, status)
    /\ UNCHANGED <<client, remote, call, aql, query, artifacts, acall>>

\* the caller calls revoke_access_token(token, token_id)
InvokeRevoke ==
    /\ sec.pc \in {"idle", "done"}
    /\ \E t \in Tokens, i \in TokenIds : sec' = SecCall(t, i)
    /\ UNCHANGED <<client, remote, call, aql, query, artifacts, acall>>

\* --------------------------------------------------------- AQL compiler
\* the largest offset and limit of the Aql objects compiled
MaxNum == 11

\* an Optional field: <<>> is None, <<x>> is the value x
Unset == <<>>
Some(x) == <<x>>

\* `if x:` of an Optional dict or list, and of an Optional int
NonEmpty(opt) == opt # Unset /\ opt[1] # <<>>
NonZero(opt) == opt # Unset /\ opt[1] # 0

Digit(d) == <<"0", "1", "2", "3", "4", "5", "6", "7", "8", "9">>[d + 1]

RECURSIVE Str(_)
\* f"{n}" of an int n >= 0
Str(n) == IF n < 10 THEN <<Digit(n)>> ELSE Str(n \div 10) \o <<Digit(n % 10)>>

RECURSIVE Join(_, _)
\* sep.join(parts)
Join(parts, sep) ==
    IF Len(parts) = 0 THEN <<>>
    ELSE IF Len(parts) = 1 THEN parts[1]
    ELSE parts[1] \o <<sep>> \o Join(Tail(parts), sep)

\* json.dumps of a str, of a list of str, and of a dict of str to str (its
\* items in insertion order)
JsonStr(x) == <<"\"", x, "\"">>
JsonList(l) ==
    <<"[">> \o Join([i \in 1..Len(l) |-> JsonStr(l[i])], ", ") \o <<"]">>
JsonDict(d) ==
    <<"{">>
    \o Join([i \in 1..Len(d) |->
                JsonStr(d[i].k) \o <<": ">> \o JsonStr(d[i].v)], ", ")
    \o <<"}">>

\* text.replace(ch, "")
Remove(text, ch) == SelectSeq(text, LAMBDA t : t # ch)

\* create_aql_query that honours the last key of the sort mapping
create_aql_query_lastkey(o) ==
    LET head == <<o.domain, ".find">>
        find == IF NonEmpty(o.find)
                THEN head \o <<"(">> \o JsonDict(o.find[1]) \o <<")">>
                ELSE head \o <<"(", ")">>
        include ==
            IF NonEmpty(o.include)
            THEN LET format_include ==
                        Remove(Remove(JsonList(o.include[1]), "["), "]")
                 IN  find \o <<".include", "(">> \o format_include \o <<")">>
            ELSE find
        sort ==
            IF NonEmpty(o.sort)
            THEN LET sort_key == o.sort[1][Len(o.sort[1])].k
                     sort_value == JsonList(o.sort[1][Len(o.sort[1])].v)
                 IN  include
                     \o <<".sort", "(", "{", "\"", sort_key, "\"", ": ">>
                     \o sort_value \o <<"}", ")">>
            ELSE include
        offset == IF NonZero(o.offset)
                  THEN sort \o <<".offset", "(">> \o Str(o.offset[1]) \o <<")">>
                  ELSE sort
        limit == IF NonZero(o.limit)
                 THEN offset \o <<".limit", "(">> \o Str(o.limit[1]) \o <<")">>
                 ELSE offset
    IN  limit

\* create_aql_query
create_aql_query(o) ==
    LET head == <<o.domain, ".find">>
        find == IF NonEmpty(o.find)
                THEN head \o <<"(">> \o JsonDict(o.find[1]) \o <<")">>
                ELSE head \o <<"(", ")">>
        include ==
            IF NonEmpty(o.include)
            THEN LET format_include ==
                        Remove(Remove(JsonList(o.include[1]), "["), "]")
                 IN  find \o <<".include", "(">> \o format_include \o <<")">>
            ELSE find
        sort ==
            IF NonEmpty(o.sort)
            THEN LET sort_key == o.sort[1][1].k
                     sort_value == JsonList(o.sort[1][1].v)
                 IN  include
                     \o <<".sort", "(", "{", "\"", sort_key, "\"", ": ">>
                     \o sort_value \o <<"}", ")">>
            ELSE include
        offset == IF NonZero(o.offset)
                  THEN sort \o <<".offset", "(">> \o Str(o.offset[1]) \o <<")">>
                  ELSE sort
        limit == IF NonZero(o.limit)
                 THEN offset \o <<".limit", "(">> \o Str(o.limit[1]) \o <<")">>
                 ELSE offset
    IN  limit

\* the Aql objects compiled
Domains == {"items", "builds"}
Finds == {Unset, Some(<<>>), Some(<<[k |-> "name", v |-> "a"]>>)}
Includes == {Unset, Some(<<>>), Some(<<"name">>), Some(<<"name", "repo">>)}
Sorts ==
    {Unset, Some(<<>>), Some(<<[k |-> "created", v |-> <<"desc">>]>>),
     Some(<<[k |-> "name", v |-> <<"asc">>],
            [k |-> "created", v |-> <<"desc">>]>>)}
Nums == {Unset} \cup {Some(n) : n \in 0..MaxNum}

AqlObjects ==
    [domain : Domains, find : Finds, include : Includes, sort : Sorts,
     offset : Nums, limit : Nums]

Compile ==
    /\ query = <<>>
    /\ query' = create_aql_query(aql)
    /\ UNCHANGED <<client, remote, call, sec, aql, artifacts, acall>>

\* ------------------------------------------------------ artifact client
\* the most leading slashes of an artifact path handed to the client
MaxSlashes == 2

RECURSIVE Slashes(_)
Slashes(n) == IF n = 0 THEN <<>> ELSE <<"/">> \o Slashes(n - 1)

\* the paths the remote system can hold, and the paths a caller may write
\* for them; "/" is a token of its own
Held == {<<"a">>, <<"libs", "/", "app-1.0.jar">>}
ArtifactPaths == {Slashes(n) \o b : n \in 0..MaxSlashes, b \in Held}

\* artifact_path.lstrip("/") that removes one slash
lstrip_once(text, ch) ==
    IF text # <<>> /\ Head(text) = ch THEN Tail(text) ELSE text

RECURSIVE lstrip(_, _)
\* artifact_path.lstrip("/")
lstrip(text, ch) ==
    IF text # <<>> /\ Head(text) = ch THEN lstrip(Tail(text), ch) ELSE text

\* artifact_path.split("/")[-1]
local_filename(path) == IF path = <<>> THEN "" ELSE path[Len(path)]

\* parse_obj_as(Union[ArtifactFolderInfoResponse, ArtifactFileInfoResponse],
\* response.json()), ArtifactPropertiesResponse(**...), ArtifactStatsResponse
ArtifactModel(json) == [path |-> json.path, origin |-> "response"]

Parsed(resp) ==
    IF resp.body = NoBody
    THEN Outcome("JSONDecodeError", Nil, None)
    ELSE Outcome("ok", ArtifactModel(resp.body), None)

\* info, from the response of its GET
info(resp) ==
    IF generic_http_method_request(resp.status, TRUE)
    THEN IF resp.status = 404
         THEN Outcome("ArtifactNotFoundException", Nil, None)
         ELSE Outcome("ArtifactoryException", Nil, "HTTPError")
    ELSE Parsed(resp)

\* properties, from the response of its GET
properties(resp) ==
    IF generic_http_method_request(resp.status, TRUE)
    THEN IF resp.status = 404
         THEN Outcome("PropertyNotFoundException", Nil, None)
         ELSE Outcome("ArtifactoryException", Nil, "HTTPError")
    ELSE Parsed(resp)

\* stats, from the response of its GET: the HTTPError is not caught
stats(resp) ==
    IF generic_http_method_request(resp.status, TRUE)
    THEN Outcome("HTTPError", Nil, None)
    ELSE Parsed(resp)

\* download: the response is streamed to the local file, whose name is returned
download(c, resp) ==
    IF generic_http_method_request(resp.status, TRUE)
    THEN Outcome("HTTPError", Nil, None)
    ELSE Outcome("ok", [file |-> local_filename(lstrip(c.path, "/"))], None)

\* the request an artifact call issues where it stands
ArtifactRequest(c) ==
    LET artifact_path == lstrip(c.path, "/")
        artifact_new_path == lstrip(c.dst, "/")
        dry == IF c.dryrun THEN 1 ELSE 0
    IN
    CASE c.pc = "request" /\ c.op = "info" ->
            [m |-> "GET", route |-> <<"api/storage/">> \o artifact_path]
      [] c.pc = "request" /\ c.op = "properties" ->
            [m |-> "GET", route |-> <<"api/storage/">> \o artifact_path]
      [] c.pc = "request" /\ c.op = "stats" ->
            [m |-> "GET",
             route |-> <<"api/storage/">> \o artifact_path \o <<"?stats">>]
      [] c.pc = "request" /\ c.op = "deploy" ->
            [m |-> "PUT", route |-> artifact_path]
      [] c.pc = "request" /\ c.op = "download" ->
            [m |-> "GET", route |-> artifact_path]
      [] c.pc = "request" /\ c.op = "delete" ->
            [m |-> "DELETE", route |-> artifact_path]
      [] c.pc = "request" /\ c.op = "copy" ->
            [m |-> "POST",
             route |-> <<"api/copy/">> \o artifact_path \o <<"?to=">>
                       \o artifact_new_path \o <<"&dry=">> \o Str(dry)]
      [] c.pc = "request" /\ c.op = "move" ->
            [m |-> "POST",
             route |-> <<"api/move/">> \o artifact_path \o <<"?to=">>
                       \o artifact_new_path \o <<"&dry=">> \o Str(dry)]
      \* self.info(artifact_path) of deploy, self.info(artifact_new_path) of
      \* copy and move: info strips the path it is given once more
      [] c.pc = "info" /\ c.op = "deploy" ->
            [m |-> "GET",
             route |-> <<"api/storage/">> \o lstrip(artifact_path, "/")]
      [] c.pc = "info" /\ c.op \in {"copy", "move"} ->
            [m |-> "GET",
             route |-> <<"api/storage/">> \o lstrip(artifact_new_path, "/")]

\* the caller's code from the response of its pending request on
ArtifactResume(c, resp) ==
    CASE c.pc = "request" /\ c.op = "info" -> Finish(c, info(resp))
      [] c.pc = "request" /\ c.op = "properties" -> Finish(c, properties(resp))
      [] c.pc = "request" /\ c.op = "stats" -> Finish(c, stats(resp))
      [] c.pc = "request" /\ c.op = "download" -> Finish(c, download(c, resp))
      [] c.pc = "request" /\ c.op = "delete" ->
            IF generic_http_method_request(resp.status, TRUE)
            THEN Finish(c, Outcome("HTTPError", Nil, None))
            ELSE Finish(c, Outcome("ok", Nil, None))
      [] c.pc = "request" /\ c.op \in {"deploy", "copy", "move"} ->
            Written(c, resp, "info")
      [] c.pc = "info" -> Finish(c, info(resp))

\* the remote system: where a token stands in a route, and the paths a route
\* names
Index(text, tok) ==
    CHOOSE i \in DOMAIN text :
        text[i] = tok /\ \A j \in 1..(i - 1) : text[j] # tok

RoutePath(route) ==
    IF route # <<>> /\ route[1] = "api/storage/"
    THEN IF route[Len(route)] = "?stats"
         THEN SubSeq(route, 2, Len(route) - 1)
         ELSE SubSeq(route, 2, Len(route))
    ELSE IF route # <<>> /\ route[1] \in {"api/copy/", "api/move/"}
    THEN SubSeq(route, 2, Index(route, "?to=") - 1)
    ELSE route

RouteTo(route) ==
    SubSeq(route, Index(route, "?to=") + 1, Index(route, "&dry=") - 1)

RouteDry(route) == route[Index(route, "&dry=") + 1]

Holds(store, path) == path \in DOMAIN store /\ store[path]

\* the remote system's own answer to a request of the artifact client, and
\* its store after it; dry=1 leaves the store as it is
ArtifactServed(req, store) ==
    LET path == RoutePath(req.route)
        miss == [resp |-> Response(404, NoBody), store |-> store]
    IN
    CASE req.m = "GET" ->
            IF Holds(store, path)
            THEN [resp |-> Response(200, [path |-> path]), store |-> store]
            ELSE miss
      [] req.m = "PUT" ->
            IF path \in DOMAIN store
            THEN [resp |-> Response(201, [path |-> path]),
                  store |-> [store EXCEPT ![path] = TRUE]]
            ELSE miss
      [] req.m = "DELETE" ->
            IF Holds(store, path)
            THEN [resp |-> Response(204, NoBody),
                  store |-> [store EXCEPT ![path] = FALSE]]
            ELSE miss
      [] req.m = "POST" ->
            LET to == RouteTo(req.route) IN
            IF ~Holds(store, path) \/ to \notin DOMAIN store THEN miss
            ELSE IF RouteDry(req.route) = "1"
            THEN [resp |-> Response(200, NoBody), store |-> store]
            ELSE IF req.route[1] = "api/copy/"
            THEN [resp |-> Response(200, NoBody),
                  store |-> [store EXCEPT ![to] = TRUE]]
            ELSE [resp |-> Response(200, NoBody),
                  store |-> [[store EXCEPT ![path] = FALSE]
                                EXCEPT ![to] = TRUE]]

\* statuses a response can carry besides the store's own answer
ArtifactFaults(req) == IF req.m = "GET" THEN {400, 500} ELSE {500}

ArtifactExchanges(req, store) ==
    {[resp |-> ArtifactServed(req, store).resp,
      store |-> ArtifactServed(req, store).store, fault |-> FALSE]}
    \cup {[resp |-> Response(st, NoBody), store |-> store, fault |-> TRUE] :
            st \in ArtifactFaults(req)}

IdleArtifactCall ==
    [op |-> None, path |-> <<>>, dst |-> <<>>, dryrun |-> FALSE,
     pc |-> "idle", log |-> <<>>, out |-> None, ret |-> Nil, cause |-> None,
     resp |-> Nil, clean |-> TRUE]

ArtifactOps ==
    {"info", "deploy", "download", "properties", "stats", "copy", "move",
     "delete"}

InvokeArtifact ==
    /\ acall.pc = "idle"
    /\ \E op \in ArtifactOps, path \in ArtifactPaths, dst \in ArtifactPaths,
          dryrun \in BOOLEAN :
        /\ op \notin {"copy", "move"} => dst = path /\ dryrun = FALSE
        /\ acall' = [IdleArtifactCall EXCEPT !.op = op, !.path = path,
                        !.dst = IF op \in {"copy", "move"} THEN dst ELSE <<>>,
                        !.dryrun = dryrun, !.pc = "request"]
    /\ UNCHANGED <<client, remote, call, sec, aql, query, artifacts>>

\* one request of the artifact call, and the caller's code that follows it
ArtifactStep ==
    /\ acall.pc \in {"request", "info"}
    /\ LET req == ArtifactRequest(acall) IN
       \E x \in ArtifactExchanges(req, artifacts) :
            /\ artifacts' = x.store
            /\ acall' = [ArtifactResume(acall, x.resp) EXCEPT
                            !.log = Append(@, req), !.resp = x.resp,
                            !.clean = @ /\ ~x.fault]
    /\ UNCHANGED <<client, remote, call, sec, aql, query>>

Info == acall.op = "info" /\ ArtifactStep
Deploy == acall.op = "deploy" /\ ArtifactStep
Download == acall.op = "download" /\ ArtifactStep
Properties == acall.op = "properties" /\ ArtifactStep
Stats == acall.op = "stats" /\ ArtifactStep
Copy == acall.op = "copy" /\ ArtifactStep
Move == acall.op = "move" /\ ArtifactStep
DeleteArtifact == acall.op = "delete" /\ ArtifactStep

ReturnArtifact ==
    /\ acall.pc = "done"
    /\ acall' = IdleArtifactCall
    /\ UNCHANGED <<client, remote, call, sec, aql, query, artifacts>>

Init ==
    /\ client \in Kinds
    /\ remote \in [Names -> {Absent} \cup [name : Names, val : Vals]]
    /\ \A n \in Names : remote[n] # Absent => remote[n].name = n
    /\ call = [p \in Callers |-> IdleCall]
    /\ sec = Nil
    /\ aql = Nil
    /\ query = <<>>
    /\ artifacts = [path \in Held |-> FALSE]
    /\ acall = IdleArtifactCall

Next ==
    \E p \in Callers :
        \/ Invoke(p)
        \/ Get(p)
        \/ Create(p)
        \/ Update(p)
        \/ Delete(p)
        \/ Return(p)

Spec == Init /\ [][Next]_vars

InitSec ==
    /\ client = Users
    /\ remote = [n \in Names |-> Absent]
    /\ call = [p \in Callers |-> IdleCall]
    /\ sec = [SecCall(None, None) EXCEPT !.pc = "idle"]
    /\ aql = Nil
    /\ query = <<>>
    /\ artifacts = [path \in Held |-> FALSE]
    /\ acall = IdleArtifactCall

NextSec == InvokeRevoke \/ RevokeAccessToken

SpecSec == InitSec /\ [][NextSec]_vars

InitAql ==
    /\ client = Users
    /\ remote = [n \in Names |-> Absent]
    /\ call = [p \in Callers |-> IdleCall]
    /\ sec = Nil
    /\ aql \in AqlObjects
    /\ query = <<>>
    /\ artifacts = [path \in Held |-> FALSE]
    /\ acall = IdleArtifactCall

NextAql == Compile

SpecAql == InitAql /\ [][NextAql]_vars

InitArtifacts ==
    /\ client = Users
    /\ remote = [n \in Names |-> Absent]
    /\ call = [p \in Callers |-> IdleCall]
    /\ sec = Nil
    /\ aql = Nil
    /\ query = <<>>
    /\ artifacts = [path \in Held |-> FALSE]
    /\ acall = IdleArtifactCall

NextArtifacts ==
    \/ InvokeArtifact
    \/ Info
    \/ Deploy
    \/ Download
    \/ Properties
    \/ Stats
    \/ Copy
    \/ Move
    \/ DeleteArtifact
    \/ ReturnArtifact

SpecArtifacts == InitArtifacts /\ [][NextArtifacts]_vars

\* ------------------------------------------------------------ properties
GetRequest(k, n) == [m |-> "GET", route |-> Route(k, n), json |-> Nil]
PutRequest(k, rec) ==
    [m |-> "PUT", route |-> Route(k, rec.name), json |-> Dict(rec)]

DeleteAbsentFails ==
    \A p \in Callers :
        LET c == call[p] IN
        (c.op = "delete" /\ c.chk = NotFoundException(client)) =>
            /\ c.pc = "done"
            /\ c.out = NotFoundException(client)
            /\ c.log = <<GetRequest(client, c.rec.name)>>

DeleteAbsentWitness ==
    \E p \in Callers :
        /\ call[p].op = "delete"
        /\ call[p].chk = NotFoundException(client)
        /\ call[p].pc = "done"

\* C3: for every resource kind, the first request of an update is the GET of
\* its existence check, and an update issues a write only after that check
\* succeeded (so an absent name ends in NotFound with nothing written).
UpdateChecksFirst ==
    \A p \in Callers :
        LET c == call[p] IN
        c.op = "update" =>
            /\ c.log # <<>> => c.log[1] = GetRequest(client, c.rec.name)
            /\ \A i \in DOMAIN c.log : IsWrite(c.log[i]) => c.chk = "ok"
            /\ c.chk = NotFoundException(client) =>
                    c.pc = "done" /\ c.out = NotFoundException(client)

CreateRoundTrip ==
    \A p \in Callers :
        LET c == call[p] IN
        (/\ c.op = "create" /\ c.pc = "done"
         /\ c.chk = NotFoundException(client)
         /\ c.clean /\ c.alone) =>
            /\ c.log = <<GetRequest(client, c.rec.name),
                         PutRequest(client, c.rec),
                         GetRequest(client, c.rec.name)>>
            /\ c.out = "ok"
            /\ remote[c.rec.name] # Absent
            /\ c.ret = Model(remote[c.rec.name])
            /\ c.ret # c.rec
            /\ c.ret.name = c.rec.name
            /\ LET again == get(client,
                                Served(GetRequest(client, c.rec.name),
                                       remote).resp)
               IN  again.out = "ok" /\ again.ret.name = c.rec.name

CreateRoundTripWitness ==
    \E p \in Callers :
        /\ call[p].op = "create"
        /\ call[p].pc = "done"
        /\ call[p].chk = NotFoundException(client)
        /\ call[p].clean
        /\ call[p].alone
        /\ call[p].out = "ok"

\* C6: the library does not serialize creates: a create that observed NotFound
\* in its existence check goes on to its PUT and never fails with
\* AlreadyExists, whatever another create of the same name has done meanwhile.
CreateNotSerialized ==
    \A p \in Callers :
        LET c == call[p] IN
        (c.op = "create" /\ c.chk = NotFoundException(client)) =>
            /\ c.out # AlreadyExistsException(client)
            /\ Len(c.log) >= 2 => c.log[2] = PutRequest(client, c.rec)

\* both creates of one absent name were answered by the store, both observed
\* NotFound, both issued their PUT, and neither failed with AlreadyExists
CreateRaceWitness ==
    \E p \in Callers, q \in Callers :
        /\ p # q
        /\ call[p].op = "create" /\ call[q].op = "create"
        /\ call[p].rec.name = call[q].rec.name
        /\ call[p].chk = NotFoundException(client)
        /\ call[q].chk = NotFoundException(client)
        /\ call[p].clean /\ call[q].clean
        /\ Len(call[p].log) = 3 /\ Len(call[q].log) = 3
        /\ call[p].log[2].m = "PUT" /\ call[q].log[2].m = "PUT"
        /\ call[p].out = "ok" /\ call[q].out = "ok"

\* C7: revoke_access_token with neither a token nor a token id (None or empty)
\* fails with InvalidTokenDataException with no request issued.
RevokeNeedsToken ==
    (sec.pc = "done" /\ ~Truthy(sec.token) /\ ~Truthy(sec.token_id)) =>
        sec.out = "InvalidTokenDataException" /\ sec.log = <<>>

RevokeNeedsTokenWitness ==
    /\ sec.pc = "done"
    /\ sec.token = ""
    /\ sec.token_id = None
    /\ sec.out = "InvalidTokenDataException"

FindFragment(o) ==
    <<o.domain, ".find", "(">>
    \o (IF NonEmpty(o.find) THEN JsonDict(o.find[1]) ELSE <<>>)
    \o <<")">>
IncludeFragment(o) ==
    <<".include", "(">>
    \o Join([i \in 1..Len(o.include[1]) |-> JsonStr(o.include[1][i])], ", ")
    \o <<")">>
SortFragment(o) ==
    <<".sort", "(", "{">> \o JsonStr(o.sort[1][1].k) \o <<": ">>
    \o JsonList(o.sort[1][1].v) \o <<"}", ")">>
OffsetFragment(n) == <<".offset", "(">> \o Str(n) \o <<")">>
LimitFragment(n) == <<".limit", "(">> \o Str(n) \o <<")">>

Contains(text, frag) ==
    \E i \in 0..(Len(text) - Len(frag)) :
        SubSeq(text, i + 1, i + Len(frag)) = frag

\* C9: the compiled text is the find fragment followed by the include, sort,
\* offset and limit fragments in that order, each there once when its clause
\* is present and not at all when it is absent.
AqlFragmentsInOrder ==
    query # <<>> =>
        query = FindFragment(aql)
                \o (IF NonEmpty(aql.include) THEN IncludeFragment(aql)
                    ELSE <<>>)
                \o (IF NonEmpty(aql.sort) THEN SortFragment(aql) ELSE <<>>)
                \o (IF aql.offset # Unset THEN OffsetFragment(aql.offset[1])
                    ELSE <<>>)
                \o (IF aql.limit # Unset THEN LimitFragment(aql.limit[1])
                    ELSE <<>>)

\* C10: an offset set to n >= 0 puts .offset(n) in the compiled text, and a
\* limit set to n >= 0 puts .limit(n) in it.
AqlOffsetLimitKept ==
    query # <<>> =>
        /\ aql.offset # Unset =>
                Contains(query, OffsetFragment(aql.offset[1]))
        /\ aql.limit # Unset => Contains(query, LimitFragment(aql.limit[1]))

\* C13, as claimed: an update of a record that exists remotely, answered by
\* the store and alone with its name, has issued GET, one POST to the
\* resource's route, GET, and returns the object built from the last GET.
UpdateGetPostGet ==
    \A p \in Callers :
        LET c == call[p] IN
        (/\ c.op = "update" /\ c.pc = "done" /\ c.out = "ok"
         /\ c.clean /\ c.alone) =>
            /\ c.log = <<GetRequest(client, c.rec.name),
                         [m |-> "POST", route |-> Route(client, c.rec.name),
                          json |-> Dict(c.rec)],
                         GetRequest(client, c.rec.name)>>
            /\ c.ret = Model(remote[c.rec.name])

Count(text, tok) == Cardinality({i \in DOMAIN text : text[i] = tok})

\* the texts a query object names in its find and include clauses
NamedElsewhere(o) ==
    (IF NonEmpty(o.find)
     THEN {o.find[1][i].k : i \in DOMAIN o.find[1]}
          \cup {o.find[1][i].v : i \in DOMAIN o.find[1]}
     ELSE {})
    \cup (IF NonEmpty(o.include)
          THEN {o.include[1][i] : i \in DOMAIN o.include[1]}
          ELSE {})

\* C14: a query object whose sort mapping is not empty compiles to a text
\* with exactly one .sort fragment, which names the first key of the mapping
\* with its direction list; no further key of the mapping occurs in the text
\* (unless find or include name it), and created -> [desc] alone gives
\* .sort({"created": ["desc"]}).
AqlSortFirstKey ==
    (query # <<>> /\ NonEmpty(aql.sort)) =>
        LET keys == aql.sort[1] IN
        /\ Count(query, ".sort") = 1
        /\ Contains(query,
                    <<".sort", "(", "{", "\"", keys[1].k, "\"", ": ", "[">>
                    \o Join([i \in 1..Len(keys[1].v) |-> JsonStr(keys[1].v[i])],
                            ", ")
                    \o <<"]", "}", ")">>)
        /\ \A i \in 2..Len(keys) :
                (keys[i].k # keys[1].k /\ keys[i].k \notin NamedElsewhere(aql))
                    => Count(query, keys[i].k) = 0
        /\ keys = <<[k |-> "created", v |-> <<"desc">>]>> =>
                Contains(query,
                         <<".sort", "(", "{", "\"", "created", "\"", ": ",
                           "[", "\"", "desc", "\"", "]", "}", ")">>)

AqlSortFirstKeyWitness ==
    /\ query # <<>>
    /\ NonEmpty(aql.sort)
    /\ Len(aql.sort[1]) = 2
    /\ Count(query, ".sort") = 1
    /\ Count(query, aql.sort[1][2].k) = 0

\* a path without its first slash, and without all of its leading slashes
StripOne(t) == IF t # <<>> /\ t[1] = "/" THEN SubSeq(t, 2, Len(t)) ELSE t
LeadingSlashes(t) ==
    Cardinality({i \in DOMAIN t : \A j \in 1..i : t[j] = "/"})
StripAll(t) == SubSeq(t, LeadingSlashes(t) + 1, Len(t))

\* every request of the call names src (and dst, for copy and move, whose
\* trailing read names dst)
AddressedAs(c, src, dst) ==
    \A i \in DOMAIN c.log :
        LET route == c.log[i].route IN
        IF c.op \in {"copy", "move"}
        THEN IF i = 1
             THEN RoutePath(route) = src /\ RouteTo(route) = dst
             ELSE RoutePath(route) = dst
        ELSE RoutePath(route) = src

\* C11, as claimed: every artifact operation addresses each path argument
\* with exactly one leading slash removed when there is one, so a path that
\* starts with two slashes keeps one.
ArtifactPathStripsOneSlash ==
    acall.pc # "idle" =>
        AddressedAs(acall, StripOne(acall.path), StripOne(acall.dst))

\* C11, amended: every artifact operation addresses each path argument with
\* all of its leading slashes removed, so no route keeps a leading slash of
\* the path, and a path deployed as /libs/app-1.0.jar is addressed as
\* libs/app-1.0.jar.
ArtifactPathStripsAllSlashes ==
    acall.pc # "idle" =>
        /\ AddressedAs(acall, StripAll(acall.path), StripAll(acall.dst))
        /\ \A i \in DOMAIN acall.log :
                RoutePath(acall.log[i].route)[1] # "/"
        /\ (acall.op = "deploy"
            /\ acall.path = <<"/", "libs", "/", "app-1.0.jar">>) =>
                \A i \in DOMAIN acall.log :
                    RoutePath(acall.log[i].route)
                        = <<"libs", "/", "app-1.0.jar">>

ArtifactPathWitness ==
    /\ acall.op = "deploy"
    /\ acall.pc = "done"
    /\ acall.path = <<"/", "/", "libs", "/", "app-1.0.jar">>
    /\ acall.log[1] = [m |-> "PUT", route |-> <<"libs", "/", "app-1.0.jar">>]
    /\ acall.out = "ok"

\* C12: info, properties and stats signal an absent path as a NotFound error
\* for the statuses 404 and 400 alike, and every other error status as
\* ArtifactoryException caused by the HTTPError.
ArtifactReadsNotFound ==
    (acall.op \in {"info", "properties", "stats"} /\ acall.pc = "done") =>
        LET st == acall.resp.status IN
        /\ st \in {404, 400} =>
                acall.out \in {"ArtifactNotFoundException",
                               "PropertyNotFoundException"}
        /\ st \in (400..599) \ {404, 400} =>
                acall.out = "ArtifactoryException" /\ acall.cause = "HTTPError"

\* C15: copy and move issue one POST whose query carries dry=1 for a dry run
\* and dry=0 otherwise, then read the destination path and return its info,
\* for a dry run as well.
CopyMoveReturnsInfo ==
    (acall.op \in {"copy", "move"} /\ acall.pc = "done" /\ acall.clean) =>
        /\ acall.log[1].m = "POST"
        /\ RouteDry(acall.log[1].route) = (IF acall.dryrun THEN "1" ELSE "0")
        /\ acall.out # "HTTPError" =>
                /\ acall.log[2] =
                        [m |-> "GET",
                         route |-> <<"api/storage/">> \o StripAll(acall.dst)]
                /\ Len(acall.log) = 2
                /\ acall.out = "ok"
                /\ acall.ret = ArtifactModel([path |-> StripAll(acall.dst)])

====
